---- MODULE Spec2Model ----
(***************************************************************************)
(* A model of tidyf's move-orchestration layer: the move executor          *)
(* (moveFile and the conflict resolver), the batch executors with the      *)
(* history log and undo, and the debouncing FileWatcher.                   *)
(*                                                                         *)
(* A file name is a sequence of string tokens, e.g. <<"a", ".txt">> for    *)
(* "a.txt" and <<"a", " (1)", ".txt">> for "a (1).txt"; a path is a record *)
(* [dir, name].  The filesystem is a function from the existing paths to   *)
(* their content, together with the set of existing directories.           *)
(*                                                                         *)
(* Specifications:                                                         *)
(*   SpecMove      calls of moveFile with every option and every error     *)
(*   SpecResolve   repeated generateUniqueName / resolveConflict calls     *)
(*   SpecHistory   the history API on a store in every condition           *)
(*   SpecBatch     analysis, executeProposals(Quiet), then undoCommand     *)
(*   SpecSilent    a batch applied by the watch command's silent executor  *)
(*   SpecAnalyze   a scan analysed in chunks, answers matched by file name *)
(*   SpecDuplicates detectDuplicates on files with sizes and hashes        *)
(*   SpecScan      scanDirectory on a tree with unreadable directories     *)
(*   SpecHandlers  interleaved 'files' handlers, moveFile await by await   *)
(*   SpecProcesses two processes sharing the history store                 *)
(*   SpecWatch     the FileWatcher on two paths, clock in whole delays     *)
(*   SpecDebounce  the FileWatcher on one path, clock in sixths of a delay *)
(***************************************************************************)
EXTENDS Integers, Sequences, FiniteSets, TLC

VARIABLES
    fs,            \* existing files: path -> content
    dirs,          \* existing directories
    mv,            \* the last moveFile call: arguments, filesystem before, result
    calls,         \* number of moveFile calls made (SpecMove)
    phase,         \* which operation the program is in
    proposals,     \* the batch handed to the executor
    idx,           \* executeProposals' loop index: the next proposal (1-based)
    results,       \* executeProposals' results array
    historyEntry,  \* the history entry of the batch being executed
    history,       \* the entries in ~/.tidy/history.json when it holds a JSON array
    fs0,           \* the filesystem when the batch started
    undo,          \* undoCommand's locals: entry, position, counters
    isRunning,     \* FileWatcher.isRunning
    watcher,       \* FileWatcher.watcher: the chokidar subscription, or "null"
    debounceTimer, \* FileWatcher.debounceTimer: a timer handle, or NoTimer
    pendingFiles,  \* FileWatcher.pendingFiles, in the Map's insertion order
    timers,        \* the event loop's scheduled timers: handle -> time it fires
    now,           \* the clock, in milliseconds
    out,           \* what the watcher has emitted or done to its subscription
    accepted,      \* every notification handled so far, in order
    last,          \* the handler that ran last, when it was one that flushes
    resolved,      \* the resolveConflict calls made so far (SpecResolve)
    storeKind,     \* what ~/.tidy/history.json is: a JSON array (held in history), or not
    clock,         \* Date.now()
    created,       \* the ids of the history entries created so far, in order
    api,           \* the last call of the history API: arguments, store before, outcome
    analysis,      \* the scan handed to the analysis and what the analysis made of it
    detected,      \* the files handed to detectDuplicates and the groups it returned
    scanned,       \* the directory tree handed to scanDirectory and what it returned
    procs          \* the concurrent handlers or processes: their position and locals

moveVars == <<fs, dirs, mv, calls>>

batchVars == <<proposals, idx, results, historyEntry, history, fs0, undo>>

watchVars == <<isRunning, watcher, debounceTimer, pendingFiles, timers, now, out, accepted, last>>

auxVars == <<resolved, storeKind, clock, created, api>>

extVars == <<analysis, detected, scanned, procs>>

vars == <<fs, dirs, mv, calls, phase, proposals, idx, results, historyEntry, history, fs0, undo,
          isRunning, watcher, debounceTimer, pendingFiles, timers, now, out, accepted, last,
          resolved, storeKind, clock, created, api,
          analysis, detected, scanned, procs>>

-----------------------------------------------------------------------------
(* Bounds *)

MaxCalls == 1

\* resolveConflict / generateUniqueName calls in one behaviour of SpecResolve
MaxResolves == 3

\* history entries created in one behaviour of SpecHistory
MaxEntries == 2

\* the last millisecond of the clock in SpecHistory
MaxClock == 2

MaxProposals == 2

\* files in one scan handed to the analysis (SpecAnalyze)
MaxScan == 3

\* proposals in one answer of the categorizer
MaxAnswers == 2

\* files handed to detectDuplicates (SpecDuplicates)
MaxFiles == 3

\* subdirectories of the scanned directory (SpecScan)
MaxSubdirs == 2

\* 'files' handlers of the watch command in flight at once (SpecHandlers)
MaxHandlers == 2

\* history operations each process issues (SpecProcesses)
MaxOps == 2

MaxExternal == 1

MaxEvents == 3

MaxStops == 1

MaxTime == 6000

-----------------------------------------------------------------------------
(* Paths *)

\* the volume a directory lives on; rename across volumes fails with EXDEV
Device(d) == IF d = "usb" THEN "vol2" ELSE "vol1"

Path(d, n) == [dir |-> d, name |-> n]

\* path.extname: the last token when it is an extension and not the whole name
extname(n) == IF Len(n) > 1 /\ n[Len(n)] \in {".txt", ".backup"} THEN <<n[Len(n)]>> ELSE <<>>

\* path.basename(p, ext): the name without its extension
basename(n) == SubSeq(n, 1, Len(n) - Len(extname(n)))

dirname(p) == p.dir

\* `${base} (${counter})${ext}`
CounterName(n, counter) == basename(n) \o <<" (" \o ToString(counter) \o ")">> \o extname(n)

\* destination + ".backup"
BackupName(p) == Path(p.dir, p.name \o <<".backup">>)

-----------------------------------------------------------------------------
(* Filesystem primitives *)

fileExists(f, p) == p \in DOMAIN f

WriteFile(f, p, c) == [q \in (DOMAIN f) \cup {p} |-> IF q = p THEN c ELSE f[q]]

RemoveFile(f, p) == [q \in (DOMAIN f) \ {p} |-> f[q]]

NoFile == "<none>"

ContentAt(f, p) == IF p \in DOMAIN f THEN f[p] ELSE NoFile

RECURSIVE ProbeName(_, _, _)
ProbeName(f, destination, counter) ==
    LET newPath == Path(dirname(destination), CounterName(destination.name, counter))
    IN  IF fileExists(f, newPath) THEN ProbeName(f, destination, counter + 1) ELSE newPath

\* a generator that tries the first suffix only
generateUniqueNameFirstSuffix(f, destination) ==
    IF ~fileExists(f, destination) THEN destination
    ELSE Path(dirname(destination), CounterName(destination.name, 1))

generateUniqueName(f, destination) ==
    IF ~fileExists(f, destination) THEN destination ELSE ProbeName(f, destination, 1)

-----------------------------------------------------------------------------
(* moveFile *)

NoError == ""

Partial == "<partial>"

\* the step of moveFile at which the operating system reports an error
Faults == {"none", "mkdir", "backup", "rename", "copy", "copyPartial", "unlink"}

\* fs.rename within one volume: the destination is replaced, the source is gone;
\* renaming a path to itself does nothing
renameFile(f, source, destination) ==
    IF source = destination THEN f
    ELSE RemoveFile(WriteFile(f, destination, f[source]), source)

\* a fallback that copies and forgets to remove the source
crossDeviceFallbackKeepsSource(f, source, destination, fault) ==
    IF fault = "copy" THEN [fs |-> f, error |-> "ENOSPC: copyfile"]
    ELSE IF fault = "copyPartial"
    THEN [fs |-> WriteFile(f, destination, Partial), error |-> "EIO: copyfile"]
    ELSE IF fault = "unlink"
    THEN [fs |-> WriteFile(f, destination, f[source]), error |-> "EPERM: unlink"]
    ELSE [fs |-> WriteFile(f, destination, f[source]), error |-> NoError]

\* a fallback that removes the source whether or not the copy succeeded
crossDeviceFallbackAlwaysUnlinks(f, source, destination, fault) ==
    IF fault = "copy" THEN [fs |-> RemoveFile(f, source), error |-> "ENOSPC: copyfile"]
    ELSE IF fault = "copyPartial"
    THEN [fs |-> RemoveFile(WriteFile(f, destination, Partial), source),
          error |-> "EIO: copyfile"]
    ELSE LET copied == WriteFile(f, destination, f[source])
         IN  IF fault = "unlink" THEN [fs |-> copied, error |-> "EPERM: unlink"]
             ELSE [fs |-> RemoveFile(copied, source), error |-> NoError]

\* the EXDEV branch: copyFile(source, destination), then unlink(source)
\* no fallback: the cross-device error of rename is passed on
crossDeviceFallbackRethrows(f, source, destination, fault) ==
    [fs |-> f, error |-> "EXDEV: cross-device link not permitted"]

crossDeviceFallback(f, source, destination, fault) ==
    IF fault = "copy" THEN [fs |-> f, error |-> "ENOSPC: copyfile"]
    ELSE IF fault = "copyPartial"
    THEN [fs |-> WriteFile(f, destination, Partial), error |-> "EIO: copyfile"]
    ELSE LET copied == WriteFile(f, destination, f[source])
         IN  IF fault = "unlink" THEN [fs |-> copied, error |-> "EPERM: unlink"]
             ELSE [fs |-> RemoveFile(copied, source), error |-> NoError]

\* a move that keeps the requested name whether or not it is taken
resolveDestinationKeepsName(f, destination, options) == destination

\* the destination moveFile settles on once it has looked at the filesystem
resolveDestination(f, destination, options) ==
    IF fileExists(f, destination) /\ ~options.overwrite
    THEN generateUniqueName(f, destination)
    ELSE destination

\* no backup is made
backupExistingSkipped(f, destination) == f

\* copyFile(destination, generateUniqueName(destination + ".backup"))
backupExisting(f, destination) ==
    WriteFile(f, generateUniqueName(f, BackupName(destination)), f[destination])

MoveOutcome(f, ds, source, destination, status, error) ==
    [fs |-> f, dirs |-> ds,
     result |-> [source |-> source, destination |-> destination,
                 status |-> status, error |-> error]]

moveFile(f, ds, source, destination, options, fault) ==
    IF dirname(destination) \notin ds /\ fault = "mkdir"
    THEN MoveOutcome(f, ds, source, destination, "failed", "EACCES: mkdir")
    ELSE
    LET ds1 == ds \cup {dirname(destination)}
        needBackup == fileExists(f, destination) /\ options.backup
    IN  IF needBackup /\ fault = "backup"
        THEN MoveOutcome(f, ds1, source, destination, "failed", "ENOSPC: copyfile")
        ELSE
        LET f1 == IF needBackup THEN backupExisting(f, destination) ELSE f
            dest == resolveDestination(f1, destination, options)
        IN  IF ~fileExists(f1, source)
            THEN MoveOutcome(f1, ds1, source, dest, "failed", "ENOENT: rename")
            ELSE IF fault = "rename"
            THEN MoveOutcome(f1, ds1, source, dest, "failed", "EACCES: rename")
            ELSE IF Device(dirname(source)) # Device(dirname(dest))
            THEN LET x == crossDeviceFallback(f1, source, dest, fault)
                 IN  IF x.error = NoError
                     THEN MoveOutcome(x.fs, ds1, source, dest, "completed", NoError)
                     ELSE MoveOutcome(x.fs, ds1, source, dest, "failed", x.error)
            ELSE MoveOutcome(renameFile(f1, source, dest), ds1, source, dest,
                             "completed", NoError)

-----------------------------------------------------------------------------
(* The files of the modelled machine *)

NameA == <<"a", ".txt">>

NameB == <<"b", ".txt">>

\* the scanned files, with their content
Scanned == (Path("in", NameA) :> "A") @@ (Path("in2", NameA) :> "B") @@ (Path("in", NameB) :> "C")

\* files that may already lie in a target directory
Occupants == (Path("out", NameA) :> "X") @@ (Path("out", CounterName(NameA, 1)) :> "Y")
             @@ (Path("usb", NameA) :> "Z")

InitialFs == {Scanned @@ [p \in S |-> Occupants[p]] : S \in SUBSET DOMAIN Occupants}

\* with a backup left behind by an earlier run
InitialMoveFs ==
    InitialFs \cup {Scanned @@ Occupants @@ (BackupName(Path("out", NameA)) :> "O")}

DirsOf(f) == {dirname(p) : p \in DOMAIN f}

NoMove == [pre |-> <<>>, source |-> Path("", <<>>), destination |-> Path("", <<>>),
           options |-> [overwrite |-> FALSE, backup |-> FALSE], fault |-> "none",
           result |-> [source |-> Path("", <<>>), destination |-> Path("", <<>>),
                       status |-> "pending", error |-> NoError]]

MoveRecord(f, source, destination, options, fault, result) ==
    [pre |-> f, source |-> source, destination |-> destination, options |-> options,
     fault |-> fault, result |-> result]

-----------------------------------------------------------------------------
(* The FileWatcher: constants and construction *)

DelayMs == 3000

\* SpecDebounce follows one path on a clock that advances in sixths of the delay;
\* SpecWatch follows two paths on a clock that advances by whole delays
Step == IF phase = "debounce" THEN DelayMs \div 6 ELSE DelayMs

AllPaths == {"p", "q"}

WatchedPaths == IF phase = "debounce" THEN {"p"} ELSE AllPaths

EventTypes == IF phase = "debounce" THEN {"change"} ELSE {"add", "change"}

NoTimer == 0

\* last tells whether the handler that ran last was the timer callback or stop(),
\* and then what it started from
OtherHandler == [op |-> "other", pending |-> <<>>, from |-> 0, wasOpen |-> FALSE]

\* the state after new FileWatcher(options)
WatcherConstructed ==
    /\ isRunning = FALSE
    /\ watcher = "null"
    /\ debounceTimer = NoTimer
    /\ pendingFiles = <<>>
    /\ timers = <<>>
    /\ now = 0
    /\ out = <<>>
    /\ accepted = <<>>
    /\ last = OtherHandler

-----------------------------------------------------------------------------
(* The history log *)

NoCall == [op |-> "none", threw |-> FALSE]

\* nothing resolved, no history file yet, no entry created
AuxInit ==
    /\ resolved = <<>>
    /\ storeKind = "missing"
    /\ clock = 1
    /\ created = <<>>
    /\ api = NoCall

NoDetection == [files |-> <<>>, groups |-> <<>>, returned |-> FALSE]

NoScan == [tree |-> <<>>, files |-> <<>>, threw |-> FALSE, returned |-> FALSE]

NoAnalysis == [files |-> <<>>, next |-> 1, proposals |-> <<>>, uncategorized |-> <<>>]

\* nothing analysed
ExtInit ==
    /\ analysis = NoAnalysis
    /\ detected = NoDetection
    /\ scanned = NoScan
    /\ procs = <<>>

NoEntry == [id |-> "", source |-> "", target |-> "", moves |-> <<>>]

\* id: Date.now().toString()
createHistoryEntry(source, target, t) ==
    [id |-> ToString(t), source |-> source, target |-> target, moves |-> <<>>]

addMoveToHistory(entry, source, destination) ==
    [entry EXCEPT !.moves = Append(@, [source |-> source, destination |-> destination])]

\* readHistory, unshift, writeHistory
saveHistoryEntry(store, entry) == <<entry>> \o store

getRecentHistory(store) == store

deleteHistoryEntry(store, id) == SelectSeq(store, LAMBDA e : e.id # id)

\* how writeFileSync ends: written; refused before anything is written; or stopped
\* after the file was truncated and part of the text written
WriteOutcomes == {"ok", "denied", "interrupted"}

\* existsSync, readFileSync, JSON.parse; [] when the file is missing or JSON.parse
\* throws; whatever JSON.parse returns otherwise
readHistory(kind, list) ==
    [isArray |-> kind # "object", list |-> IF kind = "array" THEN list ELSE <<>>]

\* writeFileSync(historyPath, JSON.stringify(history))
writeHistory(kind, list, newList, outcome) ==
    IF outcome = "ok" THEN [kind |-> "array", list |-> newList, error |-> NoError]
    ELSE IF outcome = "denied" THEN [kind |-> kind, list |-> list, error |-> "EACCES: open"]
    ELSE [kind |-> "unparsable", list |-> <<>>, error |-> "ENOSPC: write"]

\* a method of Array called on what readHistory returned
NotAnArray == "TypeError: history is not an array"

\* saveHistoryEntry on the file: the store after the call and the error it throws
saveHistoryEntryCall(kind, list, entry, outcome) ==
    LET h == readHistory(kind, list)
    IN  IF ~h.isArray THEN [kind |-> kind, list |-> list, error |-> NotAnArray]
        ELSE writeHistory(kind, list, saveHistoryEntry(h.list, entry), outcome)

\* deleteHistoryEntry on the file
deleteHistoryEntryCall(kind, list, id, outcome) ==
    LET h == readHistory(kind, list)
    IN  IF ~h.isArray THEN [kind |-> kind, list |-> list, error |-> NotAnArray]
        ELSE writeHistory(kind, list, deleteHistoryEntry(h.list, id), outcome)

\* getHistoryEntry on the file: history.find(...) || null
getHistoryEntryCall(kind, list, id) ==
    LET h == readHistory(kind, list)
        found == SelectSeq(h.list, LAMBDA e : e.id = id)
    IN  IF ~h.isArray THEN [value |-> NoEntry, error |-> NotAnArray]
        ELSE [value |-> IF found = <<>> THEN NoEntry ELSE found[1], error |-> NoError]

\* getRecentHistory on the file: history.slice(0, limit)
getRecentHistoryCall(kind, list) ==
    LET h == readHistory(kind, list)
    IN  IF ~h.isArray THEN [value |-> <<>>, error |-> NotAnArray]
        ELSE [value |-> getRecentHistory(h.list), error |-> NoError]

NoUndo == [entry |-> NoEntry, i |-> 0, successCount |-> 0, failCount |-> 0, faulted |-> FALSE, order |-> <<>>]

-----------------------------------------------------------------------------
(* SpecMove: single calls of moveFile with every option and every fault *)

InitMove ==
    /\ fs \in InitialMoveFs
    /\ \E extra \in SUBSET {"out"} : dirs = DirsOf(fs) \cup extra
    /\ mv = NoMove
    /\ calls = 0
    /\ phase = "move"
    /\ proposals = <<>>
    /\ idx = 0
    /\ results = <<>>
    /\ historyEntry = NoEntry
    /\ history = <<>>
    /\ fs0 = <<>>
    /\ undo = NoUndo
    /\ WatcherConstructed
    /\ AuxInit
    /\ ExtInit

CallMoveFile ==
    /\ phase = "move"
    /\ calls < MaxCalls
    /\ \E source \in DOMAIN Scanned, d \in {"in", "in2", "out", "usb"},
          options \in [overwrite : BOOLEAN, backup : BOOLEAN], fault \in Faults :
         LET destination == Path(d, source.name)
             r == moveFile(fs, dirs, source, destination, options, fault)
         IN  /\ fs' = r.fs
             /\ dirs' = r.dirs
             /\ mv' = MoveRecord(fs, source, destination, options, fault, r.result)
    /\ calls' = calls + 1
    /\ UNCHANGED <<phase, batchVars, watchVars, extVars, auxVars>>

NextMove == CallMoveFile

SpecMove == InitMove /\ [][NextMove]_vars

-----------------------------------------------------------------------------
(* SpecResolve: repeated conflicts on the same destinations *)

resolveConflict(f, destination, strategy) ==
    IF ~fileExists(f, destination) THEN [path |-> destination, status |-> "pending"]
    ELSE IF strategy = "rename"
    THEN [path |-> generateUniqueName(f, destination), status |-> "pending"]
    ELSE IF strategy = "overwrite" THEN [path |-> destination, status |-> "pending"]
    ELSE IF strategy = "skip" THEN [path |-> destination, status |-> "skipped"]
    ELSE [path |-> destination, status |-> "conflict"]

\* the destinations callers ask for: a name, a name that already carries a counter,
\* and a name nothing occupies at the start
ResolveTargets == {Path("out", NameA), Path("out", CounterName(NameA, 1)), Path("out", NameB)}

ResolveRecord(op, f, destination, strategy, r, create) ==
    [op |-> op, pre |-> f, destination |-> destination, strategy |-> strategy,
     path |-> r.path, status |-> r.status, created |-> create]

InitResolve ==
    /\ fs \in {f \in InitialFs : \A p \in DOMAIN f : dirname(p) # "usb"}
    /\ dirs = DirsOf(fs)
    /\ mv = NoMove
    /\ calls = 0
    /\ phase = "resolve"
    /\ proposals = <<>>
    /\ idx = 0
    /\ results = <<>>
    /\ historyEntry = NoEntry
    /\ history = <<>>
    /\ fs0 = <<>>
    /\ undo = NoUndo
    /\ WatcherConstructed
    /\ AuxInit
    /\ ExtInit

\* the caller asks for a free name and creates the file there
CallGenerateUniqueName ==
    /\ phase = "resolve"
    /\ Len(resolved) < MaxResolves
    /\ \E destination \in ResolveTargets :
         LET path == generateUniqueName(fs, destination)
             r == [path |-> path, status |-> "pending"]
         IN  /\ resolved' = Append(resolved, ResolveRecord("generateUniqueName", fs, destination,
                                                           "rename", r, TRUE))
             /\ fs' = WriteFile(fs, path, "N")
    /\ UNCHANGED <<dirs, mv, calls, phase, batchVars, watchVars, extVars, storeKind, clock, created, api>>

CallResolveConflict ==
    /\ phase = "resolve"
    /\ Len(resolved) < MaxResolves
    /\ \E destination \in ResolveTargets, strategy \in {"rename", "overwrite", "skip"} :
         LET r == resolveConflict(fs, destination, strategy)
             go == r.status = "pending"
         IN  /\ resolved' = Append(resolved, ResolveRecord("resolveConflict", fs, destination,
                                                           strategy, r, go))
             /\ fs' = IF go THEN WriteFile(fs, r.path, "N") ELSE fs
    /\ UNCHANGED <<dirs, mv, calls, phase, batchVars, watchVars, extVars, storeKind, clock, created, api>>

NextResolve == CallGenerateUniqueName \/ CallResolveConflict

SpecResolve == InitResolve /\ [][NextResolve]_vars

-----------------------------------------------------------------------------
(* SpecHistory: the history API on ~/.tidy/history.json *)

\* the record of one call of the API: what was asked, what readHistory saw before,
\* the list the call meant to store, what it returned and the error it threw
ApiCall(op, id, list, new, value, error) ==
    [op |-> op, id |-> id, preKind |-> storeKind, pre |-> list, new |-> new,
     value |-> value, error |-> error, threw |-> error # NoError]

\* the entry a batch saves: created at time t, with the one move that completed
BatchEntry(t, n) ==
    addMoveToHistory(createHistoryEntry("in", "out", t),
                     Path("in", IF n = 0 THEN NameA ELSE NameB),
                     Path("out", IF n = 0 THEN NameA ELSE NameB))

CreatedIds == {created[i].id : i \in DOMAIN created}

InitHistory ==
    /\ fs \in {Scanned}
    /\ dirs = DirsOf(fs)
    /\ mv = NoMove
    /\ calls = 0
    /\ phase = "history"
    /\ proposals = <<>>
    /\ idx = 0
    /\ results = <<>>
    /\ historyEntry = NoEntry
    /\ history = <<>>
    /\ fs0 = <<>>
    /\ undo = NoUndo
    /\ WatcherConstructed
    /\ resolved = <<>>
    \* ~/.tidy/history.json: no file, a JSON array of entries, text that is not JSON,
    \* or JSON that is not an array
    /\ storeKind \in {"missing", "array", "unparsable", "object"}
    /\ clock = 1
    /\ created = <<>>
    /\ api = NoCall
    /\ ExtInit

\* a millisecond passes
Elapse ==
    /\ phase = "history"
    /\ clock < MaxClock
    /\ clock' = clock + 1
    /\ UNCHANGED <<moveVars, phase, batchVars, watchVars, extVars, resolved, storeKind, created, api>>

\* createHistoryEntry ... saveHistoryEntry(entry)
SaveEntry ==
    /\ phase = "history"
    /\ Len(created) < MaxEntries
    /\ \E outcome \in WriteOutcomes :
         LET entry == BatchEntry(clock, Len(created))
             h == readHistory(storeKind, history)
             w == saveHistoryEntryCall(storeKind, history, entry, outcome)
         IN  /\ history' = w.list
             /\ storeKind' = w.kind
             /\ created' = Append(created, [id |-> entry.id, t |-> clock])
             /\ api' = ApiCall("saveHistoryEntry", entry.id, h.list,
                               saveHistoryEntry(h.list, entry), <<>>, w.error)
    /\ UNCHANGED <<moveVars, phase, proposals, idx, results, historyEntry, fs0, undo,
                   watchVars, extVars, resolved, clock>>

\* deleteHistoryEntry(id)
DeleteEntry ==
    /\ phase = "history"
    /\ \E id \in CreatedIds, outcome \in WriteOutcomes :
         LET h == readHistory(storeKind, history)
             w == deleteHistoryEntryCall(storeKind, history, id, outcome)
         IN  /\ history' = w.list
             /\ storeKind' = w.kind
             /\ api' = ApiCall("deleteHistoryEntry", id, h.list,
                               deleteHistoryEntry(h.list, id), <<>>, w.error)
    /\ UNCHANGED <<moveVars, phase, proposals, idx, results, historyEntry, fs0, undo,
                   watchVars, extVars, resolved, clock, created>>

\* getHistoryEntry(id)
GetEntry ==
    /\ phase = "history"
    /\ \E id \in CreatedIds :
         LET h == readHistory(storeKind, history)
             g == getHistoryEntryCall(storeKind, history, id)
         IN  api' = ApiCall("getHistoryEntry", id, h.list, h.list,
                            IF g.value = NoEntry THEN <<>> ELSE <<g.value>>, g.error)
    /\ UNCHANGED <<moveVars, phase, batchVars, watchVars, extVars, resolved, storeKind, clock, created>>

\* getRecentHistory()
GetRecent ==
    /\ phase = "history"
    /\ LET h == readHistory(storeKind, history)
           g == getRecentHistoryCall(storeKind, history)
       IN  api' = ApiCall("getRecentHistory", "", h.list, h.list, g.value, g.error)
    /\ UNCHANGED <<moveVars, phase, batchVars, watchVars, extVars, resolved, storeKind, clock, created>>

NextHistory == Elapse \/ SaveEntry \/ DeleteEntry \/ GetEntry \/ GetRecent

SpecHistory == InitHistory /\ [][NextHistory]_vars

-----------------------------------------------------------------------------
(* SpecBatch: analysis, executeProposals / executeProposalsQuiet, undo *)

\* errors the operating system raises during the moves of a batch
BatchFaults == {"none", "rename", "copyPartial"}

\* parseAIResponse: the destination is the target folder joined with the file's name
MakeProposal(source, d) ==
    [sourcePath |-> source, destination |-> Path(d, source.name), conflictExists |-> FALSE]

RECURSIVE ProposalLists(_)
ProposalLists(n) ==
    IF n = 0 THEN {<<>>}
    ELSE LET shorter == ProposalLists(n - 1)
         IN  shorter \cup
             {Append(ps, MakeProposal(src, d)) :
                 ps \in {q \in shorter : Len(q) = n - 1},
                 src \in DOMAIN Scanned, d \in {"in", "out", "usb"}}

\* non-empty batches whose proposals have distinct sources
Batches ==
    {ps \in ProposalLists(MaxProposals) :
        /\ Len(ps) > 0
        /\ \A i, j \in 1..Len(ps) : ps[i].sourcePath = ps[j].sourcePath => i = j}

checkConflicts(f, ps) ==
    [i \in 1..Len(ps) |-> [ps[i] EXCEPT !.conflictExists = fileExists(f, ps[i].destination)]]

\* the options every batch executor passes to moveFile
MoveOptionsTrustingAnalysis(prop) == [overwrite |-> ~prop.conflictExists, backup |-> FALSE]

MoveOptions(prop) == [overwrite |-> FALSE, backup |-> FALSE]

\* which results are appended to the history entry
ShouldRecordUnlessSkipped(result) == result.status # "skipped"

ShouldRecord(result) == result.status = "completed"

\* the destination appended to the history entry for a completed move
RecordedDestination(prop, result) == prop.destination

\* counting every attempted move as a success
CompletedCountOfAttempts(rs) == Len(rs)

CompletedCount(rs) == Len(SelectSeq(rs, LAMBDA r : r.status = "completed"))

InitBatch ==
    /\ fs \in InitialFs
    /\ dirs = DirsOf(fs)
    /\ mv = NoMove
    /\ calls = 0
    /\ phase = "analyzed"
    /\ \E ps \in Batches : proposals = checkConflicts(fs, ps)
    /\ idx = 0
    /\ results = <<>>
    /\ historyEntry = NoEntry
    /\ history = <<>>
    /\ fs0 = <<>>
    /\ undo = NoUndo
    /\ WatcherConstructed
    /\ AuxInit
    /\ ExtInit

\* another program puts a file at a proposed destination after the analysis
ExternalCreate ==
    /\ phase = "analyzed"
    /\ Cardinality({p \in DOMAIN fs : fs[p] = "E"}) < MaxExternal
    /\ \E i \in 1..Len(proposals) :
         /\ ~fileExists(fs, proposals[i].destination)
         /\ fs' = WriteFile(fs, proposals[i].destination, "E")
         /\ dirs' = dirs \cup {dirname(proposals[i].destination)}
    /\ UNCHANGED <<mv, calls, phase, batchVars, watchVars, extVars, auxVars>>

\* executeProposals up to its loop
StartBatch ==
    /\ phase = "analyzed"
    /\ phase' = "executing"
    /\ results' = <<>>
    /\ historyEntry' = createHistoryEntry("in", "out", clock)
    /\ idx' = 1
    /\ fs0' = fs
    /\ UNCHANGED <<fs, dirs, mv, calls, proposals, history, undo, watchVars, extVars, auxVars>>

\* one iteration of the loop
ExecuteProposal ==
    /\ phase = "executing"
    /\ idx <= Len(proposals)
    /\ \E fault \in BatchFaults :
         LET prop == proposals[idx]
             r == moveFile(fs, dirs, prop.sourcePath, prop.destination, MoveOptions(prop), fault)
         IN  /\ fs' = r.fs
             /\ dirs' = r.dirs
             /\ mv' = MoveRecord(fs, prop.sourcePath, prop.destination, MoveOptions(prop),
                                 fault, r.result)
             /\ results' = Append(results, r.result)
             /\ historyEntry' =
                    IF ShouldRecord(r.result)
                    THEN addMoveToHistory(historyEntry, prop.sourcePath,
                                          RecordedDestination(prop, r.result))
                    ELSE historyEntry
    /\ idx' = idx + 1
    /\ UNCHANGED <<calls, phase, proposals, history, fs0, undo, watchVars, extVars, auxVars>>

\* after the loop: save the history entry if any move completed, summarise, return
\* the results; an error thrown by saveHistoryEntry leaves the function
FinishBatch ==
    /\ phase = "executing"
    /\ idx > Len(proposals)
    /\ IF CompletedCount(results) > 0
       THEN \E outcome \in WriteOutcomes :
              LET w == saveHistoryEntryCall(storeKind, history, historyEntry, outcome)
              IN  /\ history' = w.list
                  /\ storeKind' = w.kind
                  /\ api' = [op |-> "saveHistoryEntry", threw |-> w.error # NoError]
                  /\ phase' = IF w.error = NoError THEN "done" ELSE "threw"
       ELSE /\ phase' = "done"
            /\ UNCHANGED <<history, storeKind, api>>
    /\ UNCHANGED <<moveVars, proposals, idx, results, historyEntry, fs0, undo, watchVars, extVars,
                   resolved, clock, created>>

\* undoMove: mkdir(dirname(source)), rename(destination, source); false on any error
undoMove(f, ds, source, destination, fault) ==
    IF fault \/ Device(dirname(source)) # Device(dirname(destination))
    THEN [fs |-> f, dirs |-> ds \cup {dirname(source)}, ok |-> FALSE]
    ELSE [fs |-> renameFile(f, destination, source), dirs |-> ds \cup {dirname(source)},
          ok |-> TRUE]

\* undoCommand up to its loop: the most recent entry is selected and confirmed
StartUndo ==
    /\ phase = "done"
    /\ Len(getRecentHistory(history)) > 0
    /\ undo' = [entry |-> getRecentHistory(history)[1], i |-> 1, successCount |-> 0,
                failCount |-> 0, faulted |-> FALSE, order |-> <<>>]
    /\ phase' = "undoing"
    /\ UNCHANGED <<moveVars, proposals, idx, results, historyEntry, history, fs0, watchVars, extVars, auxVars>>

\* one iteration of undoCommand's loop over entry.moves
UndoOne ==
    /\ phase = "undoing"
    /\ undo.i <= Len(undo.entry.moves)
    /\ LET move == undo.entry.moves[undo.i]
       IN  IF ~fileExists(fs, move.destination)
           THEN /\ undo' = [undo EXCEPT !.i = @ + 1, !.failCount = @ + 1,
                                        !.order = Append(@, undo.i)]
                /\ UNCHANGED <<fs, dirs>>
           ELSE \E fault \in BOOLEAN :
                  LET r == undoMove(fs, dirs, move.source, move.destination, fault)
                  IN  /\ fs' = r.fs
                      /\ dirs' = r.dirs
                      /\ undo' = [undo EXCEPT !.i = @ + 1,
                                              !.order = Append(@, undo.i),
                                              !.successCount = IF r.ok THEN @ + 1 ELSE @,
                                              !.failCount = IF r.ok THEN @ ELSE @ + 1,
                                              !.faulted = @ \/ fault]
    /\ UNCHANGED <<mv, calls, phase, proposals, idx, results, historyEntry, history, fs0, watchVars, extVars, auxVars>>

\* after the loop: the entry is removed from the history, or kept
FinishUndo ==
    /\ phase = "undoing"
    /\ undo.i > Len(undo.entry.moves)
    /\ \E deleteFromHistory \in BOOLEAN :
         history' = IF deleteFromHistory THEN deleteHistoryEntry(history, undo.entry.id)
                    ELSE history
    /\ phase' = "undone"
    /\ UNCHANGED <<moveVars, proposals, idx, results, historyEntry, fs0, undo, watchVars, extVars, auxVars>>

NextBatch ==
    \/ ExternalCreate
    \/ StartBatch
    \/ ExecuteProposal
    \/ FinishBatch
    \/ StartUndo
    \/ UndoOne
    \/ FinishUndo

SpecBatch == InitBatch /\ [][NextBatch]_vars

-----------------------------------------------------------------------------
(* SpecSilent: a batch the watch command applies with executeProposalsSilent *)

\* the 'files' handler has analysed the new files
InitSilent ==
    /\ fs \in InitialFs
    /\ dirs = DirsOf(fs)
    /\ mv = NoMove
    /\ calls = 0
    /\ phase = "watchAnalyzed"
    /\ \E ps \in Batches : proposals = checkConflicts(fs, ps)
    /\ idx = 0
    /\ results = <<>>
    /\ historyEntry = NoEntry
    /\ history = <<>>
    /\ fs0 = <<>>
    /\ undo = NoUndo
    /\ WatcherConstructed
    /\ AuxInit
    /\ ExtInit

\* auto mode, or "Apply all" in the interactive review: executeProposalsSilent begins
StartSilent ==
    /\ phase = "watchAnalyzed"
    /\ phase' = "silent"
    /\ results' = <<>>
    /\ idx' = 1
    /\ fs0' = fs
    /\ UNCHANGED <<fs, dirs, mv, calls, proposals, historyEntry, history, undo, watchVars,
                   auxVars, extVars>>

\* one iteration of executeProposalsSilent's loop: the move, then success++ or failed++
ExecuteProposalSilent ==
    /\ phase = "silent"
    /\ idx <= Len(proposals)
    /\ \E fault \in BatchFaults :
         LET prop == proposals[idx]
             r == moveFile(fs, dirs, prop.sourcePath, prop.destination, [overwrite |-> FALSE, backup |-> FALSE], fault)
         IN  /\ fs' = r.fs
             /\ dirs' = r.dirs
             /\ mv' = MoveRecord(fs, prop.sourcePath, prop.destination, [overwrite |-> FALSE, backup |-> FALSE],
                                 fault, r.result)
             /\ results' = Append(results, r.result)
    /\ idx' = idx + 1
    /\ UNCHANGED <<calls, phase, proposals, historyEntry, history, fs0, undo, watchVars,
                   auxVars, extVars>>

\* after the loop: the counts are returned and reported
FinishSilent ==
    /\ phase = "silent"
    /\ idx > Len(proposals)
    /\ phase' = "silentDone"
    /\ UNCHANGED <<moveVars, batchVars, watchVars, auxVars, extVars>>

NextSilent == StartSilent \/ ExecuteProposalSilent \/ FinishSilent

SpecSilent == InitSilent /\ [][NextSilent]_vars

-----------------------------------------------------------------------------
(* SpecDuplicates: detectDuplicates on scanned files with their sizes and hashes *)

\* everything but the part of the state a specification is about
QuietInit(ph) ==
    /\ fs = <<>>
    /\ dirs = {}
    /\ mv = NoMove
    /\ calls = 0
    /\ phase = ph
    /\ proposals = <<>>
    /\ idx = 0
    /\ results = <<>>
    /\ historyEntry = NoEntry
    /\ history = <<>>
    /\ fs0 = <<>>
    /\ undo = NoUndo
    /\ WatcherConstructed
    /\ AuxInit

\* file.hash: an MD5 digest, or undefined when the file could not be read
NoHash == ""

RECURSIVE HashedLists(_)
HashedLists(n) ==
    IF n = 0 THEN {<<>>}
    ELSE LET shorter == HashedLists(n - 1)
         IN  shorter \cup
             {Append(fl, [path |-> n, size |-> size, hash |-> hash]) :
                 fl \in {q \in shorter : Len(q) = n - 1},
                 size \in {10, 20, 30}, hash \in {"h1", "h2", NoHash}}

RECURSIVE SumSizes(_)
SumSizes(files) == IF files = <<>> THEN 0 ELSE Head(files).size + SumSizes(Tail(files))

\* the keys of hashMap in insertion order: each hash at its first file
HashKeys(files) ==
    LET idxs == SelectSeq([i \in 1..Len(files) |-> i],
                          LAMBDA i : /\ files[i].hash # NoHash
                                     /\ \A j \in 1..(i - 1) : files[j].hash # files[i].hash)
    IN  [k \in 1..Len(idxs) |-> files[idxs[k]].hash]

\* hashMap.get(hash): the files of a hash in scan order
GroupFiles(files, hash) == SelectSeq(files, LAMBDA file : file.hash = hash)

\* totalSize - groupFiles[0].size
WastedBytes(groupFiles) == SumSizes(groupFiles) - groupFiles[1].size

\* Array.prototype.sort((a, b) => b.wastedBytes - a.wastedBytes): stable, descending
RECURSIVE InsertGroup(_, _)
InsertGroup(sorted, g) ==
    IF sorted = <<>> THEN <<g>>
    ELSE IF Head(sorted).wastedBytes >= g.wastedBytes
    THEN <<Head(sorted)>> \o InsertGroup(Tail(sorted), g)
    ELSE <<g>> \o sorted

RECURSIVE SortGroups(_)
SortGroups(groups) ==
    IF groups = <<>> THEN <<>>
    ELSE InsertGroup(SortGroups(SubSeq(groups, 1, Len(groups) - 1)), groups[Len(groups)])

detectDuplicates(files) ==
    LET keys == HashKeys(files)
        all == [k \in 1..Len(keys) |->
                  [hash |-> keys[k], files |-> GroupFiles(files, keys[k]),
                   wastedBytes |-> WastedBytes(GroupFiles(files, keys[k]))]]
    IN  SortGroups(SelectSeq(all, LAMBDA g : Len(g.files) > 1))

InitDuplicates ==
    /\ QuietInit("duplicates")
    /\ analysis = NoAnalysis
    /\ \E files \in HashedLists(MaxFiles) : detected = [NoDetection EXCEPT !.files = files]
    /\ scanned = NoScan
    /\ procs = <<>>

CallDetectDuplicates ==
    /\ phase = "duplicates"
    /\ ~detected.returned
    /\ detected' = [detected EXCEPT !.groups = detectDuplicates(detected.files),
                                    !.returned = TRUE]
    /\ UNCHANGED <<moveVars, phase, batchVars, watchVars, auxVars, analysis, scanned, procs>>

NextDuplicates == CallDetectDuplicates

SpecDuplicates == InitDuplicates /\ [][NextDuplicates]_vars

-----------------------------------------------------------------------------
(* SpecHandlers: 'files' handlers of the watch command in auto mode, each started by
   its own batch and not awaited by the emitter, moving one new file each.  A handler
   gives up control at every await; one action is the code between two awaits. *)

\* the handler of batch h: the new file of the batch, and the proposal analyzeFiles
\* returns for it (the target directory and the file's name)
Handler(h) ==
    LET source == <<Path("in", NameA), Path("in2", NameA), Path("in", NameB)>>[h]
    IN  [pc |-> "analysing", source |-> source, destination |-> Path("out", source.name),
         target |-> Path("out", source.name), counter |-> 1, status |-> "pending"]

InitHandlers ==
    /\ fs \in InitialFs
    /\ \E extra \in SUBSET {"out"} : dirs = DirsOf(fs) \cup extra
    /\ mv = NoMove
    /\ calls = 0
    /\ phase = "handlers"
    /\ proposals = <<>>
    /\ idx = 0
    /\ results = <<>>
    /\ historyEntry = NoEntry
    /\ history = <<>>
    /\ fs0 = fs
    /\ undo = NoUndo
    /\ WatcherConstructed
    /\ AuxInit
    /\ analysis = NoAnalysis
    /\ detected = NoDetection
    /\ scanned = NoScan
    /\ procs = [h \in 1..MaxHandlers |-> Handler(h)]

\* await getFileMetadata, await analyzeFiles; then executeProposalsSilent calls moveFile
HandlerAnalysed(h) ==
    /\ procs[h].pc = "analysing"
    /\ procs' = [procs EXCEPT ![h].pc = "mkdir"]
    /\ UNCHANGED <<fs, dirs>>

\* moveFile: await ensureDirectory(dirname(destination))
HandlerEnsureDirectory(h) ==
    /\ procs[h].pc = "mkdir"
    /\ dirs' = dirs \cup {dirname(procs[h].destination)}
    /\ procs' = [procs EXCEPT ![h].pc = "exists"]
    /\ UNCHANGED fs

\* moveFile: const destExists = await fileExists(destination); overwrite is false
HandlerFileExists(h) ==
    /\ procs[h].pc = "exists"
    /\ procs' = [procs EXCEPT ![h].pc = IF fileExists(fs, procs[h].destination)
                                        THEN "unique" ELSE "rename"]
    /\ UNCHANGED <<fs, dirs>>

\* generateUniqueName: if (!(await fileExists(destination))) return destination
HandlerUniqueName(h) ==
    /\ procs[h].pc = "unique"
    /\ procs' = [procs EXCEPT ![h].pc = IF fileExists(fs, procs[h].destination)
                                        THEN "probe" ELSE "rename"]
    /\ UNCHANGED <<fs, dirs>>

\* generateUniqueName: one round of do { newPath = ...; counter++ } while (await fileExists(newPath))
HandlerProbe(h) ==
    /\ procs[h].pc = "probe"
    /\ LET newPath == Path(dirname(procs[h].destination),
                           CounterName(procs[h].destination.name, procs[h].counter))
       IN  procs' = [procs EXCEPT ![h].counter = @ + 1,
                                  ![h].target = IF fileExists(fs, newPath) THEN @ ELSE newPath,
                                  ![h].pc = IF fileExists(fs, newPath) THEN "probe" ELSE "rename"]
    /\ UNCHANGED <<fs, dirs>>

\* moveFile: await rename(source, destination), and the result it returns
HandlerRename(h) ==
    /\ procs[h].pc = "rename"
    /\ IF fileExists(fs, procs[h].source)
       THEN /\ fs' = renameFile(fs, procs[h].source, procs[h].target)
            /\ procs' = [procs EXCEPT ![h].pc = "returned", ![h].status = "completed"]
       ELSE /\ fs' = fs
            /\ procs' = [procs EXCEPT ![h].pc = "returned", ![h].status = "failed"]
    /\ UNCHANGED dirs

NextHandlers ==
    \E h \in 1..MaxHandlers :
        /\ phase = "handlers"
        /\ \/ HandlerAnalysed(h)
           \/ HandlerEnsureDirectory(h)
           \/ HandlerFileExists(h)
           \/ HandlerUniqueName(h)
           \/ HandlerProbe(h)
           \/ HandlerRename(h)
        /\ UNCHANGED <<mv, calls, phase, proposals, idx, results, historyEntry, history, fs0,
                       undo, watchVars, auxVars, analysis, detected, scanned>>

SpecHandlers == InitHandlers /\ [][NextHandlers]_vars

-----------------------------------------------------------------------------
(* SpecProcesses: the CLI and the Raycast extension, two processes sharing
   ~/.tidy/history.json.  Inside a process saveHistoryEntry and deleteHistoryEntry run
   to completion, but readFileSync and writeFileSync are two system calls and the
   other process can run between them. *)

Processes == <<"cli", "raycast">>

\* a process between operations: the array it read, the operation under way, the
\* operations it has finished and the ids it has deleted
IdleProcess ==
    [pc |-> "idle", op |-> "", entry |-> NoEntry, id |-> "", local |-> <<>>, ops |-> 0,
     deleted |-> {}]

DeletedIds == UNION {procs[p].deleted : p \in DOMAIN procs}

InitProcesses ==
    /\ fs \in {Scanned}
    /\ dirs = DirsOf(fs)
    /\ mv = NoMove
    /\ calls = 0
    /\ phase = "processes"
    /\ proposals = <<>>
    /\ idx = 0
    /\ results = <<>>
    /\ historyEntry = NoEntry
    /\ history = <<>>
    /\ fs0 = <<>>
    /\ undo = NoUndo
    /\ WatcherConstructed
    /\ resolved = <<>>
    /\ storeKind \in {"missing", "array"}
    /\ clock = 1
    /\ created = <<>>
    /\ api = NoCall
    /\ analysis = NoAnalysis
    /\ detected = NoDetection
    /\ scanned = NoScan
    /\ procs = [p \in DOMAIN Processes |-> IdleProcess]

\* saveHistoryEntry(entry): const history = readHistory()
SaveReads(p) ==
    /\ procs[p].pc = "idle"
    /\ procs[p].ops < MaxOps
    /\ procs' = [procs EXCEPT ![p].pc = "read", ![p].op = "saveHistoryEntry",
                              ![p].entry = BatchEntry(clock, 0),
                              ![p].local = readHistory(storeKind, history).list]
    /\ clock' = clock + 1
    /\ UNCHANGED <<history, storeKind, created>>

\* saveHistoryEntry(entry): history.unshift(entry); writeHistory(history)
SaveWrites(p) ==
    /\ procs[p].pc = "read"
    /\ procs[p].op = "saveHistoryEntry"
    /\ LET w == writeHistory(storeKind, history,
                             saveHistoryEntry(procs[p].local, procs[p].entry), "ok")
       IN  /\ history' = w.list
           /\ storeKind' = w.kind
    /\ created' = Append(created, procs[p].entry)
    /\ procs' = [procs EXCEPT ![p].pc = "idle", ![p].ops = @ + 1]
    /\ UNCHANGED clock

\* deleteHistoryEntry(id) of an entry some process saved: const history = readHistory()
DeleteReads(p) ==
    /\ procs[p].pc = "idle"
    /\ procs[p].ops < MaxOps
    /\ \E id \in CreatedIds \ DeletedIds :
         procs' = [procs EXCEPT ![p].pc = "read", ![p].op = "deleteHistoryEntry",
                                ![p].id = id,
                                ![p].local = readHistory(storeKind, history).list]
    /\ UNCHANGED <<history, storeKind, created, clock>>

\* deleteHistoryEntry(id): writeHistory(history.filter(...))
DeleteWrites(p) ==
    /\ procs[p].pc = "read"
    /\ procs[p].op = "deleteHistoryEntry"
    /\ LET w == writeHistory(storeKind, history,
                             deleteHistoryEntry(procs[p].local, procs[p].id), "ok")
       IN  /\ history' = w.list
           /\ storeKind' = w.kind
    /\ procs' = [procs EXCEPT ![p].pc = "idle", ![p].ops = @ + 1,
                              ![p].deleted = @ \cup {procs[p].id}]
    /\ UNCHANGED <<created, clock>>

NextProcesses ==
    \E p \in DOMAIN Processes :
        /\ phase = "processes"
        /\ \/ SaveReads(p)
           \/ SaveWrites(p)
           \/ DeleteReads(p)
           \/ DeleteWrites(p)
        /\ UNCHANGED <<moveVars, phase, proposals, idx, results, historyEntry, fs0, undo,
                       watchVars, resolved, api, analysis, detected, scanned>>

SpecProcesses == InitProcesses /\ [][NextProcesses]_vars

-----------------------------------------------------------------------------
(* SpecScan: scanDirectory on a directory with files and subdirectories *)

TopDir == "in"

\* its subdirectories, in readdir's order
SubDirList == [i \in 1..MaxSubdirs |-> "in/sub" \o ToString(i)]

\* the directory trees scanned: the files of the top directory, the file (or none) of
\* each subdirectory, the directories readdir fails on, and the scan options
Trees ==
    LET SubDirs == {SubDirList[i] : i \in DOMAIN SubDirList}
    IN
    [top : SUBSET {NameA, NameB}, sub : [SubDirs -> SUBSET {NameA}],
     unreadable : SUBSET ({TopDir} \cup SubDirs),
     recursive : BOOLEAN, maxDepth : {0, 1}]

\* the paths of the file entries of a directory, in readdir's order
PathsIn(dir, names) ==
    (IF NameA \in names THEN <<Path(dir, NameA)>> ELSE <<>>)
    \o (IF NameB \in names THEN <<Path(dir, NameB)>> ELSE <<>>)

\* the recursive calls of scanDirectoryInternal, from the i-th subdirectory on: the
\* files of each, or nothing for one on which readdir throws
RECURSIVE scanSubdirectories(_, _)
scanSubdirectories(tree, i) ==
    IF i > MaxSubdirs THEN <<>>
    ELSE (IF SubDirList[i] \in tree.unreadable THEN <<>>
          ELSE PathsIn(SubDirList[i], tree.sub[SubDirList[i]]))
         \o scanSubdirectories(tree, i + 1)

\* scanDirectory: the files found, and whether an error reaches the caller; it
\* descends when recursive && (maxDepth === 0 || currentDepth < maxDepth), at depth 0
scanDirectory(tree) ==
    IF TopDir \in tree.unreadable THEN [files |-> <<>>, threw |-> FALSE]
    ELSE [files |-> PathsIn(TopDir, tree.top)
                    \o (IF tree.recursive /\ (tree.maxDepth = 0 \/ 0 < tree.maxDepth)
                        THEN scanSubdirectories(tree, 1) ELSE <<>>),
          threw |-> FALSE]

InitScan ==
    /\ QuietInit("scan")
    /\ analysis = NoAnalysis
    /\ detected = NoDetection
    /\ \E tree \in Trees : scanned = [NoScan EXCEPT !.tree = tree]
    /\ procs = <<>>

CallScanDirectory ==
    /\ phase = "scan"
    /\ ~scanned.returned
    /\ LET r == scanDirectory(scanned.tree)
       IN  scanned' = [scanned EXCEPT !.files = r.files, !.threw = r.threw, !.returned = TRUE]
    /\ UNCHANGED <<moveVars, phase, batchVars, watchVars, auxVars, analysis, detected, procs>>

NextScan == CallScanDirectory

SpecScan == InitScan /\ [][NextScan]_vars

-----------------------------------------------------------------------------
(* SpecAnalyze: the scan is analysed in chunks and the answers are parsed *)

\* const BATCH_SIZE = 50, scaled to the scans of the model
BATCH_SIZE == 2

\* the names the categorizer answers with: those scanned and one it makes up
AnswerNames == {NameA, NameB, <<"ghost", ".txt">>}

RECURSIVE AnswerLists(_)
AnswerLists(n) ==
    IF n = 0 THEN {<<>>}
    ELSE LET shorter == AnswerLists(n - 1)
         IN  shorter \cup
             {Append(ps, [file |-> name, destination |-> "out"]) :
                 ps \in {q \in shorter : Len(q) = n - 1}, name \in AnswerNames}

\* what the categorizer answers: JSON with proposals and uncategorized, or other text
Responses ==
    [parses : {TRUE}, proposals : AnswerLists(MaxAnswers),
     uncategorized : {<<>>} \cup {<<name>> : name \in AnswerNames}]
    \cup {[parses |-> FALSE, proposals |-> <<>>, uncategorized |-> <<>>]}

RECURSIVE ScanLists(_)
ScanLists(n) ==
    IF n = 0 THEN {<<>>}
    ELSE LET shorter == ScanLists(n - 1)
         IN  shorter \cup
             {Append(fl, [path |-> path, name |-> path.name]) :
                 fl \in {q \in shorter : Len(q) = n - 1}, path \in DOMAIN Scanned}

\* a scan lists every file once
Scans ==
    {fl \in ScanLists(MaxScan) :
        Len(fl) > 0 /\ \A i, j \in 1..Len(fl) : fl[i].path = fl[j].path => i = j}

\* fileMap.set(file.name, file) for every file: the last file of a name stays
BuildFileMap(files) ==
    [name \in {files[i].name : i \in 1..Len(files)} |->
        files[CHOOSE i \in 1..Len(files) :
                 /\ files[i].name = name
                 /\ \A j \in 1..Len(files) : files[j].name = name => j <= i]]

\* the loop over parsed.proposals: live is the set of keys still in fileMap
RECURSIVE TakeProposals(_, _, _, _)
TakeProposals(ps, fileMap, live, acc) ==
    IF ps = <<>> THEN [proposals |-> acc, live |-> live]
    ELSE LET p == Head(ps)
         IN  IF p.file \notin live
             THEN TakeProposals(Tail(ps), fileMap, live, acc)
             ELSE TakeProposals(Tail(ps), fileMap, live \ {p.file},
                                Append(acc, MakeProposal(fileMap[p.file].path, p.destination)))

\* the loop over parsed.uncategorized
RECURSIVE TakeUncategorized(_, _, _, _)
TakeUncategorized(ns, fileMap, live, acc) ==
    IF ns = <<>> THEN [uncategorized |-> acc, live |-> live]
    ELSE IF Head(ns) \notin live
    THEN TakeUncategorized(Tail(ns), fileMap, live, acc)
    ELSE TakeUncategorized(Tail(ns), fileMap, live \ {Head(ns)},
                           Append(acc, fileMap[Head(ns)]))

\* fileMap.values(): the entries left, in the order their keys were first set
RemainingValues(files, fileMap, live) ==
    LET firstOfName(i) == \A j \in 1..(i - 1) : files[j].name # files[i].name
        idxs == SelectSeq([i \in 1..Len(files) |-> i],
                          LAMBDA i : firstOfName(i) /\ files[i].name \in live)
    IN  [k \in 1..Len(idxs) |-> fileMap[files[idxs[k]].name]]

parseAIResponse(response, files) ==
    IF ~response.parses THEN [proposals |-> <<>>, uncategorized |-> files]
    ELSE LET fileMap == BuildFileMap(files)
             a == TakeProposals(response.proposals, fileMap, DOMAIN fileMap, <<>>)
             b == TakeUncategorized(response.uncategorized, fileMap, a.live, <<>>)
         IN  [proposals |-> a.proposals,
              uncategorized |-> b.uncategorized \o RemainingValues(files, fileMap, b.live)]

\* analyzeFiles: prompt, parseAIResponse, checkConflicts
analyzeFiles(f, files, response) ==
    LET parsed == parseAIResponse(response, files)
    IN  [parsed EXCEPT !.proposals = checkConflicts(f, parsed.proposals)]

InitAnalyze ==
    /\ fs \in InitialFs
    /\ dirs = DirsOf(fs)
    /\ mv = NoMove
    /\ calls = 0
    /\ phase = "analyzing"
    /\ proposals = <<>>
    /\ idx = 0
    /\ results = <<>>
    /\ historyEntry = NoEntry
    /\ history = <<>>
    /\ fs0 = <<>>
    /\ undo = NoUndo
    /\ WatcherConstructed
    /\ AuxInit
    /\ \E files \in Scans : analysis = [NoAnalysis EXCEPT !.files = files]
    /\ detected = NoDetection
    /\ scanned = NoScan
    /\ procs = <<>>

\* one analyzeFiles call: the whole scan when it has at most BATCH_SIZE files,
\* otherwise the next slice of BATCH_SIZE files, its result concatenated
AnalyzeChunk ==
    /\ phase = "analyzing"
    /\ analysis.next <= Len(analysis.files)
    /\ \E response \in Responses :
         LET last1 == IF analysis.next + BATCH_SIZE - 1 < Len(analysis.files)
                      THEN analysis.next + BATCH_SIZE - 1 ELSE Len(analysis.files)
             batch == SubSeq(analysis.files, analysis.next, last1)
             r == analyzeFiles(fs, batch, response)
         IN  analysis' = [analysis EXCEPT !.next = last1 + 1,
                                          !.proposals = @ \o r.proposals,
                                          !.uncategorized = @ \o r.uncategorized]
    /\ UNCHANGED <<moveVars, phase, batchVars, watchVars, auxVars, detected, scanned, procs>>

\* the proposal is complete and handed on
FinishAnalysis ==
    /\ phase = "analyzing"
    /\ analysis.next > Len(analysis.files)
    /\ phase' = "analyzed"
    /\ proposals' = analysis.proposals
    /\ UNCHANGED <<moveVars, idx, results, historyEntry, history, fs0, undo, watchVars,
                   auxVars, extVars>>

NextAnalyze == AnalyzeChunk \/ FinishAnalysis

SpecAnalyze == InitAnalyze /\ [][NextAnalyze]_vars

-----------------------------------------------------------------------------
(* The FileWatcher's handlers *)

Armed(ts, timer) == timer \in DOMAIN ts

\* clearTimeout: a timer that has fired or was cleared is no longer scheduled
clearTimeout(ts, timer) == [h \in (DOMAIN ts) \ {timer} |-> ts[h]]

\* setTimeout(callback, delay)
setTimeout(ts, timer, t, delay) == [h \in (DOMAIN ts) \cup {timer} |-> IF h = timer THEN t + delay ELSE ts[h]]

\* a list that is appended to, whether or not the path is already in it
MapSetAppends(pending, event) == Append(pending, event)

\* Map.set: an existing key keeps its place and gets the new value
MapSet(pending, event) ==
    IF \E i \in 1..Len(pending) : pending[i].path = event.path
    THEN [i \in 1..Len(pending) |-> IF pending[i].path = event.path THEN event ELSE pending[i]]
    ELSE Append(pending, event)

\* what a listener can observe when something is emitted
Emission(kind, events, t, running, open, armed) ==
    [kind |-> kind, events |-> events, at |-> t, running |-> running, open |-> open,
     armed |-> armed]

\* the watcher's fields as one record
Watcher ==
    [isRunning |-> isRunning, watcher |-> watcher, debounceTimer |-> debounceTimer,
     pendingFiles |-> pendingFiles, timers |-> timers, out |-> out]

\* handleEvent without the clearTimeout: the earlier timer stays scheduled
handleEventKeepsTimer(w, event, timer, t) ==
    [w EXCEPT !.pendingFiles = MapSet(@, event),
              !.timers = setTimeout(@, timer, t, DelayMs),
              !.debounceTimer = timer]

\* handleEvent
handleEvent(w, event, timer, t) ==
    [w EXCEPT !.pendingFiles = MapSet(@, event),
              !.timers = setTimeout(IF w.debounceTimer # NoTimer
                                    THEN clearTimeout(@, w.debounceTimer) ELSE @,
                                    timer, t, DelayMs),
              !.debounceTimer = timer]

\* flushPendingFiles without the clear()
flushPendingFilesKeepsPending(w, t) ==
    IF Len(w.pendingFiles) = 0 THEN w
    ELSE [w EXCEPT !.out = Append(@, Emission("files", w.pendingFiles, t, w.isRunning,
                                              w.watcher = "open",
                                              Armed(w.timers, w.debounceTimer)))]

\* flushPendingFiles
flushPendingFiles(w, t) ==
    IF Len(w.pendingFiles) = 0 THEN w
    ELSE [w EXCEPT !.pendingFiles = <<>>,
                   !.out = Append(@, Emission("files", w.pendingFiles, t, w.isRunning,
                                              w.watcher = "open",
                                              Armed(w.timers, w.debounceTimer)))]

\* stop that goes idle before it flushes
stopIdleFirst(w, t) ==
    LET cancelled == IF w.debounceTimer # NoTimer
                     THEN [w EXCEPT !.timers = clearTimeout(@, w.debounceTimer),
                                    !.debounceTimer = NoTimer]
                     ELSE w
        idle == [cancelled EXCEPT !.isRunning = FALSE]
        flushed == flushPendingFiles(idle, t)
        closed == IF flushed.watcher # "null"
                  THEN [flushed EXCEPT !.watcher = "null",
                                       !.out = Append(@, Emission("close", <<>>, t,
                                                                  flushed.isRunning, TRUE,
                                                                  FALSE))]
                  ELSE flushed
    IN  [closed EXCEPT !.out = Append(@, Emission("stop", <<>>, t, closed.isRunning,
                                                  closed.watcher = "open",
                                                  Armed(closed.timers, closed.debounceTimer)))]

\* stop
stop(w, t) ==
    LET cancelled == IF w.debounceTimer # NoTimer
                     THEN [w EXCEPT !.timers = clearTimeout(@, w.debounceTimer),
                                    !.debounceTimer = NoTimer]
                     ELSE w
        flushed == flushPendingFiles(cancelled, t)
        closed == IF flushed.watcher # "null"
                  THEN [flushed EXCEPT !.watcher = "null",
                                       !.out = Append(@, Emission("close", <<>>, t,
                                                                  flushed.isRunning, TRUE,
                                                                  FALSE))]
                  ELSE flushed
        idle == [closed EXCEPT !.isRunning = FALSE]
    IN  [idle EXCEPT !.out = Append(@, Emission("stop", <<>>, t, idle.isRunning,
                                                idle.watcher = "open",
                                                Armed(idle.timers, idle.debounceTimer)))]

Count(kind) == Len(SelectSeq(out, LAMBDA e : e.kind = kind))

\* the watch command's 'files' handler: events.filter((e) => e.type === "add").map(path)
newFilePaths(events) ==
    {events[i].path : i \in {j \in 1..Len(events) : events[j].type = "add"}}

SetWatcher(w) ==
    /\ isRunning' = w.isRunning
    /\ watcher' = w.watcher
    /\ debounceTimer' = w.debounceTimer
    /\ pendingFiles' = w.pendingFiles
    /\ timers' = w.timers
    /\ out' = w.out

\* start(paths) without the isRunning test: every call subscribes
StartResubscribes ==
    /\ phase \in {"watch", "debounce"}
    /\ isRunning' = TRUE
    /\ watcher' = "open"
    /\ out' = Append(out, Emission("watch", <<>>, now, TRUE, TRUE,
                                   Armed(timers, debounceTimer)))
    /\ last' = OtherHandler
    /\ UNCHANGED <<debounceTimer, pendingFiles, timers, now, accepted>>
    /\ UNCHANGED <<moveVars, phase, batchVars, auxVars, extVars>>

\* start(paths): nothing when already running, else a new chokidar subscription
Start ==
    /\ phase \in {"watch", "debounce"}
    /\ IF isRunning
       THEN UNCHANGED <<isRunning, watcher, out>>
       ELSE /\ isRunning' = TRUE
            /\ watcher' = "open"
            /\ out' = Append(out, Emission("watch", <<>>, now, TRUE, TRUE,
                                           Armed(timers, debounceTimer)))
    /\ last' = OtherHandler
    /\ UNCHANGED <<debounceTimer, pendingFiles, timers, now, accepted>>
    /\ UNCHANGED <<moveVars, phase, batchVars, auxVars, extVars>>

\* the subscription delivers an add or change notification
Notify ==
    /\ watcher = "open"
    /\ Len(accepted) < MaxEvents
    /\ \E type \in EventTypes, path \in WatchedPaths :
         LET seq == Len(accepted) + 1
             event == [type |-> type, path |-> path, timestamp |-> now, seq |-> seq]
         IN  /\ SetWatcher(handleEvent(Watcher, event, seq, now))
             /\ accepted' = Append(accepted, [event |-> event, flushes |-> Count("files"),
                                              stops |-> Count("stop")])
    /\ last' = OtherHandler
    /\ UNCHANGED now
    /\ UNCHANGED <<moveVars, phase, batchVars, auxVars, extVars>>

\* a scheduled debounce timer fires: its callback calls flushPendingFiles
TimerFires ==
    /\ \E timer \in DOMAIN timers :
         /\ timers[timer] <= now
         /\ SetWatcher(flushPendingFiles([Watcher EXCEPT !.timers = clearTimeout(@, timer)], now))
    /\ last' = [op |-> "timer", pending |-> pendingFiles, from |-> Len(out),
                wasOpen |-> watcher = "open"]
    /\ UNCHANGED <<now, accepted>>
    /\ UNCHANGED <<moveVars, phase, batchVars, auxVars, extVars>>

Stop ==
    /\ phase \in {"watch", "debounce"}
    /\ Count("stop") < MaxStops
    /\ SetWatcher(stop(Watcher, now))
    /\ last' = [op |-> "stop", pending |-> pendingFiles, from |-> Len(out),
                wasOpen |-> watcher = "open"]
    /\ UNCHANGED <<now, accepted>>
    /\ UNCHANGED <<moveVars, phase, batchVars, auxVars, extVars>>

\* time passes while a timer is scheduled; a timer fires when it is due
Tick ==
    /\ now + Step <= MaxTime
    /\ DOMAIN timers # {}
    /\ \A timer \in DOMAIN timers : timers[timer] > now
    /\ now' = now + Step
    /\ UNCHANGED <<isRunning, watcher, debounceTimer, pendingFiles, timers, out, accepted, last>>
    /\ UNCHANGED <<moveVars, phase, batchVars, auxVars, extVars>>

WatchInit(granularity) ==
    /\ fs = <<>>
    /\ dirs = {}
    /\ mv = NoMove
    /\ calls = 0
    /\ phase = granularity
    /\ proposals = <<>>
    /\ idx = 0
    /\ results = <<>>
    /\ historyEntry = NoEntry
    /\ history = <<>>
    /\ fs0 = <<>>
    /\ undo = NoUndo
    /\ WatcherConstructed
    /\ AuxInit
    /\ ExtInit

NextWatch ==
    \/ Start
    \/ Notify
    \/ TimerFires
    \/ Stop
    \/ Tick

InitWatch == WatchInit("watch")

SpecWatch == InitWatch /\ [][NextWatch]_vars

InitDebounce == WatchInit("debounce")

SpecDebounce == InitDebounce /\ [][NextWatch]_vars

-----------------------------------------------------------------------------
(* Claims about moveFile (SpecMove) *)

MoveReturned(status) == mv # NoMove /\ mv.result.status = status

CrossDevice(m) == Device(dirname(m.source)) # Device(dirname(m.result.destination))

\* the postcondition of a completed move
MovedTo(m) ==
    /\ ~fileExists(fs, m.source)
    /\ fileExists(fs, m.result.destination)
    /\ fs[m.result.destination] = m.pre[m.source]

\* C1 as stated: whenever moveFile returns completed, the source path no longer
\* exists and the returned destination exists with the content the source had.
C1_CompletedMovesTheFile == MoveReturned("completed") => MovedTo(mv)

\* C1, amended: the same, for every completed move whose returned destination is
\* not the source path itself (moveFile(p, p, {overwrite: true}) renames a file
\* onto itself and reports completed).
C1_CompletedMovesTheFileElsewhere ==
    (MoveReturned("completed") /\ mv.source # mv.result.destination) => MovedTo(mv)

\* C1 witness: a completed copy-then-delete move that was renamed around a conflict
C1_Witness ==
    /\ MoveReturned("completed")
    /\ CrossDevice(mv)
    /\ mv.result.destination # mv.destination
    /\ MovedTo(mv)

\* C2: whenever moveFile returns failed, the source is as it was before the call
\* (it still exists, with its content) and the result carries an error message.
C2_FailedLeavesSource ==
    MoveReturned("failed") =>
        /\ mv.result.error # NoError
        /\ ContentAt(fs, mv.source) = ContentAt(mv.pre, mv.source)
        /\ fileExists(mv.pre, mv.source) => fileExists(fs, mv.source)

\* C2 witness: the cross-device copy failed part-way and the source is still there
C2_Witness ==
    /\ MoveReturned("failed")
    /\ mv.fault = "copyPartial"
    /\ CrossDevice(mv)
    /\ fileExists(fs, mv.source)
    /\ ContentAt(fs, mv.result.destination) = Partial

-----------------------------------------------------------------------------
(* Claims about the batch executors and undo (SpecBatch) *)

InBatch == phase \in {"executing", "done", "undoing", "undone"}

BatchEnded == phase \in {"done", "undoing", "undone"}

\* the indices of the proposals whose result is completed, in order
CompletedIndices ==
    SelectSeq([i \in 1..Len(results) |-> i], LAMBDA i : results[i].status = "completed")

\* C3: the proposals are attempted one by one in the given order whatever the
\* earlier outcomes, all of them by the end of the batch, and the history entry's
\* moves are the proposals whose result is completed, in their original order.
C3_EveryProposalAttemptedAndRecorded ==
    InBatch =>
        /\ Len(results) = idx - 1
        /\ \A i \in 1..Len(results) : results[i].source = proposals[i].sourcePath
        /\ BatchEnded => Len(results) = Len(proposals)
        /\ Len(historyEntry.moves) = Len(CompletedIndices)
        /\ \A k \in 1..Len(CompletedIndices) :
             historyEntry.moves[k].source = proposals[CompletedIndices[k]].sourcePath
        /\ (phase = "done" /\ Len(CompletedIndices) > 0) => history[1] = historyEntry

\* C3 witness: the first proposal failed, the second was still moved and recorded
C3_Witness ==
    /\ phase = "done"
    /\ Len(results) >= 2
    /\ results[1].status = "failed"
    /\ results[2].status = "completed"
    /\ Len(historyEntry.moves) = 1
    /\ historyEntry.moves[1].source = proposals[2].sourcePath

\* C4: every move appended to the history entry records the source and the final
\* destination of its completed MoveResult.
C4_HistoryRecordsFinalDestination ==
    InBatch =>
        \A k \in 1..Len(historyEntry.moves) :
            k <= Len(CompletedIndices) =>
                /\ historyEntry.moves[k].source = results[CompletedIndices[k]].source
                /\ historyEntry.moves[k].destination = results[CompletedIndices[k]].destination

\* the paths a batch touched: what was there before, and where completed moves ended
BatchPaths ==
    (DOMAIN fs0) \cup {results[i].destination : i \in {j \in 1..Len(results) :
                                                        results[j].status = "completed"}}

\* C5: once the batch's history entry has been undone (no operating-system error
\* during the undo), every path the batch touched holds what it held before the
\* batch: sources are back, moved files are gone from where they were moved to,
\* earlier occupants of the destinations are untouched.
C5_UndoRestoresTheBatch ==
    (phase = "undone" /\ ~undo.faulted) =>
        \A p \in BatchPaths : ContentAt(fs, p) = ContentAt(fs0, p)

\* the proposal the last moveFile call of the batch executed
LastProposal == proposals[idx - 1]

AppearedSinceAnalysis ==
    /\ phase \in {"executing", "done"}
    /\ idx > 1
    /\ ~LastProposal.conflictExists
    /\ fileExists(mv.pre, mv.destination)

\* C10: when a file lies at the proposed destination at execution time although
\* the analysis saw none (conflictExists is false), the file that appeared is
\* left as it is, and a completed move ends at a sibling name that was free.
C10_ConflictRecheckedAtExecution ==
    AppearedSinceAnalysis =>
        /\ ContentAt(fs, mv.destination) = mv.pre[mv.destination]
        /\ mv.result.status = "completed" =>
             /\ mv.result.destination # mv.destination
             /\ ~fileExists(mv.pre, mv.result.destination)
             /\ ContentAt(fs, mv.result.destination) = mv.pre[mv.source]

\* C10 witness: a file created by another program after the analysis is kept
C10_Witness ==
    /\ AppearedSinceAnalysis
    /\ mv.pre[mv.destination] = "E"
    /\ mv.result.status = "completed"
    /\ mv.result.destination = Path(dirname(mv.destination), CounterName(mv.destination.name, 1))
    /\ fs[mv.destination] = "E"

-----------------------------------------------------------------------------
(* Claims about the FileWatcher (SpecWatch, SpecDebounce) *)

FilesBatches == SelectSeq(out, LAMBDA e : e.kind = "files")

\* how often the notification numbered n occurs in the batches fb
TimesEmitted(fb, n) ==
    Cardinality({<<k, i>> \in (1..Len(fb)) \X (1..Len(accepted)) :
                    i <= Len(fb[k].events) /\ fb[k].events[i].seq = n})

IsPending(n) == \E i \in 1..Len(pendingFiles) : pendingFiles[i].seq = n

\* a later notification for the same path replaced n before any flush
Coalesced(n) ==
    \E m \in (n + 1)..Len(accepted) :
        /\ accepted[m].event.path = accepted[n].event.path
        /\ accepted[m].flushes = accepted[n].flushes

\* what the handler that ran last has appended to out
LastOutput == SubSeq(out, last.from + 1, Len(out))

\* C6: an event that is in the pending map when it is flushed is emitted in exactly
\* one batch: an accepted event is either replaced by a later one for its path,
\* or still pending with a timer armed to flush it, or emitted once and no longer
\* pending; no batch is empty; stop() emits what was pending in one batch, and
\* nothing when nothing was pending.
C6_EachPendingEventEmittedOnce ==
    /\ LET fb == FilesBatches
       IN  /\ \A n \in 1..Len(accepted) :
                IF Coalesced(n) THEN ~IsPending(n) /\ TimesEmitted(fb, n) = 0
                ELSE IF IsPending(n) THEN TimesEmitted(fb, n) = 0
                ELSE TimesEmitted(fb, n) = 1
           /\ \A k \in 1..Len(fb) : Len(fb[k].events) > 0
    /\ Len(pendingFiles) > 0 => Armed(timers, debounceTimer)
    /\ last.op = "stop" =>
         /\ pendingFiles = <<>>
         /\ Len(SelectSeq(LastOutput, LAMBDA e : e.kind = "files"))
              = IF Len(last.pending) > 0 THEN 1 ELSE 0

\* C6 witness: stop() flushed pending events after a timer had flushed earlier ones
C6_Witness ==
    /\ last.op = "stop"
    /\ Len(last.pending) > 0
    /\ Len(FilesBatches) = 2
    /\ FilesBatches[2].events = last.pending

\* the time of the latest notification in a batch
LatestTimestamp(events) ==
    CHOOSE t \in {events[i].timestamp : i \in 1..Len(events)} :
        \A i \in 1..Len(events) : events[i].timestamp <= t

\* C7: at most one timer is scheduled, and it is due a full delay after the latest
\* notification; no batch is emitted between two notifications less than a delay
\* apart (unless stop() came between them); a batch emitted by the timer is
\* emitted a full delay after the latest notification in it.
C7_TrailingEdgeDebounce ==
    /\ Cardinality(DOMAIN timers) <= 1
    /\ DOMAIN timers \subseteq {debounceTimer}
    /\ Armed(timers, debounceTimer) =>
         timers[debounceTimer] = accepted[Len(accepted)].event.timestamp + DelayMs
    /\ \A n \in 1..(Len(accepted) - 1) :
         (/\ accepted[n + 1].event.timestamp - accepted[n].event.timestamp < DelayMs
          /\ accepted[n + 1].stops = accepted[n].stops)
         => accepted[n + 1].flushes = accepted[n].flushes
    /\ (last.op = "timer" /\ Len(LastOutput) > 0) =>
         /\ Len(LastOutput) = 1
         /\ LastOutput[1].at = LatestTimestamp(LastOutput[1].events) + DelayMs

\* C7 witness: notifications for one path at 0, 500 and 2500 ms, one batch at 5500 ms
C7_Witness ==
    /\ Len(accepted) = 3
    /\ accepted[1].event.timestamp = 0
    /\ accepted[2].event.timestamp = 500
    /\ accepted[3].event.timestamp = 2500
    /\ \A n \in 1..3 : accepted[n].event.path = "p"
    /\ Len(FilesBatches) = 1
    /\ FilesBatches[1].at = 5500
    /\ FilesBatches[1].events = <<accepted[3].event>>
    /\ last.op = "timer"

\* the notifications received for a path after `flushes` batches had been emitted
Received(path, flushes) ==
    {n \in 1..Len(accepted) :
        accepted[n].event.path = path /\ accepted[n].flushes = flushes}

Latest(S) == CHOOSE n \in S : \A m \in S : m <= n

OnePerPathAndLatest(events, flushes) ==
    /\ \A i, j \in 1..Len(events) : events[i].path = events[j].path => i = j
    /\ \A i \in 1..Len(events) :
         /\ Received(events[i].path, flushes) # {}
         /\ events[i] = accepted[Latest(Received(events[i].path, flushes))].event

\* C8: the pending map holds at most one event per path, the latest notification
\* received for it; every emitted batch holds, for each path notified since the
\* previous flush, exactly one event: the latest notification for that path.
C8_PendingCoalescesToLatest ==
    LET fb == FilesBatches
    IN  /\ OnePerPathAndLatest(pendingFiles, Len(fb))
        /\ \A k \in 1..Len(fb) :
             /\ OnePerPathAndLatest(fb[k].events, k - 1)
             /\ \A path \in AllPaths :
                  Received(path, k - 1) # {} =>
                      \E i \in 1..Len(fb[k].events) : fb[k].events[i].path = path

\* C8 witness: an add and then a change for one path were emitted as one change event
C8_Witness ==
    /\ Len(FilesBatches) = 1
    /\ Len(accepted) >= 2
    /\ accepted[1].event.path = accepted[2].event.path
    /\ accepted[1].event.type = "add"
    /\ accepted[2].event.type = "change"
    /\ accepted[2].flushes = 0
    /\ FilesBatches[1].events = <<accepted[2].event>>

\* C9: stop() on a running watcher cancels the timer, then emits what is pending
\* as one batch (nothing if nothing is pending), then closes the subscription,
\* then sets running to false, then emits 'stop'; afterwards the pending map is
\* empty, no timer is scheduled and running is false.
C9_StopOrder ==
    (last.op = "stop" /\ last.wasOpen) =>
        /\ LastOutput =
             (IF Len(last.pending) > 0
              THEN <<Emission("files", last.pending, now, TRUE, TRUE, FALSE)>>
              ELSE <<>>)
             \o <<Emission("close", <<>>, now, TRUE, TRUE, FALSE),
                  Emission("stop", <<>>, now, FALSE, FALSE, FALSE)>>
        /\ pendingFiles = <<>>
        /\ DOMAIN timers = {}
        /\ debounceTimer = NoTimer
        /\ watcher = "null"
        /\ ~isRunning

\* C9 witness: stop() on a running watcher with two pending events and a timer armed
C9_Witness ==
    /\ last.op = "stop"
    /\ last.wasOpen
    /\ Len(last.pending) = 2
    /\ Len(LastOutput) = 3
    /\ LastOutput[1].events = last.pending
    /\ ~isRunning


-----------------------------------------------------------------------------
(* Claims about conflict resolution *)

\* the calls that must produce a fresh name
Renaming(r) == r.op = "generateUniqueName" \/ r.strategy = "rename"

Suffixed(p, k) == Path(dirname(p), CounterName(p.name, k))

\* the smallest k >= 1 whose suffixed name is free in f
IsSmallestFree(f, p, k) ==
    /\ ~fileExists(f, Suffixed(p, k))
    /\ \A j \in 1..(k - 1) : fileExists(f, Suffixed(p, j))

\* C11: generateUniqueName, and resolveConflict with strategy rename, return a path at
\* which nothing exists at the time of the call: the destination itself when it is free,
\* otherwise the name with " (k)" before the extension for the smallest free k >= 1; and
\* calls for the same destination, each followed by creating the file, never return the
\* same path twice.
C11_UniqueNameIsFreshAndSmallest ==
    /\ \A i \in DOMAIN resolved :
         LET r == resolved[i]
         IN  Renaming(r) =>
               /\ ~fileExists(r.pre, r.path)
               /\ r.status = "pending"
               /\ ~fileExists(r.pre, r.destination) => r.path = r.destination
               /\ fileExists(r.pre, r.destination) =>
                    \E k \in 1..(Cardinality(DOMAIN r.pre) + 1) :
                        /\ r.path = Suffixed(r.destination, k)
                        /\ IsSmallestFree(r.pre, r.destination, k)
    /\ \A i, j \in DOMAIN resolved :
         (/\ i < j
          /\ Renaming(resolved[i]) /\ Renaming(resolved[j])
          /\ resolved[i].created
          /\ resolved[i].destination = resolved[j].destination)
         => resolved[i].path # resolved[j].path

\* three conflicts in a row on one occupied destination, by both entry points, the last
\* one answered with a counter above 1
C11_Witness ==
    \E i, j, l \in DOMAIN resolved :
        /\ i < j /\ j < l
        /\ resolved[i].destination = resolved[l].destination
        /\ resolved[j].destination = resolved[l].destination
        /\ resolved[i].created /\ resolved[j].created
        /\ resolved[i].op = "generateUniqueName"
        /\ resolved[l].op = "resolveConflict" /\ resolved[l].strategy = "rename"
        /\ fileExists(resolved[i].pre, resolved[i].destination)
        /\ \E k \in 2..4 : resolved[l].path = Suffixed(resolved[l].destination, k)

RunningOrDone == phase \in {"executing", "done"}

CompletedSet == {i \in 1..Len(results) : results[i].status = "completed"}

\* C12: the moves of a batch run one after another, so when several proposals name the
\* same destination every completed move ends at a different final path, and with
\* overwrite disabled no move replaces a file placed by an earlier move of the batch or
\* present before the batch.
C12_SequentialMovesNeverCollide ==
    RunningOrDone =>
        /\ \A i, j \in CompletedSet : i # j => results[i].destination # results[j].destination
        /\ \A i \in CompletedSet :
             ContentAt(fs, results[i].destination) = fs0[proposals[i].sourcePath]
        /\ \A p \in DOMAIN fs0 :
             (\A i \in CompletedSet : proposals[i].sourcePath # p) => ContentAt(fs, p) = fs0[p]

\* two proposals for one occupied destination, both completed, the second with a
\* counter after the first one's
C12_Witness ==
    /\ phase = "done"
    /\ Len(proposals) >= 2
    /\ proposals[1].destination = proposals[2].destination
    /\ fileExists(fs0, proposals[1].destination)
    /\ CompletedSet = {1, 2}
    /\ \E k \in 1..3 :
         /\ results[1].destination = Suffixed(proposals[1].destination, k)
         /\ results[2].destination = Suffixed(proposals[1].destination, k + 1)

-----------------------------------------------------------------------------
(* Claims about the cross-device fallback and the backup *)

\* the errors of the steps around the rename: creating the folder, the backup copy,
\* a rename error other than EXDEV, the copy and the delete of the fallback
OtherStepErrors ==
    {"EACCES: mkdir", "ENOSPC: copyfile", "ENOENT: rename", "EACCES: rename",
     "EIO: copyfile", "EPERM: unlink"}

\* C13: for a source that exists, a rename that fails with EXDEV is not reported as a failure: the source is
\* copied to the destination and removed only after the copy succeeded, and the move
\* returns completed with the destination holding the source's bytes; any other rename
\* error yields failed with nothing copied and nothing deleted.
C13_CrossDeviceFallsBackToCopy ==
    /\ (mv # NoMove /\ fileExists(mv.pre, mv.source) /\ CrossDevice(mv)) =>
          /\ mv.result.status = "failed" => mv.result.error \in OtherStepErrors
          /\ mv.fault = "none" => mv.result.status = "completed"
          /\ mv.result.status = "completed" => MovedTo(mv)
          /\ ~fileExists(fs, mv.source) =>
                ContentAt(fs, mv.result.destination) = mv.pre[mv.source]
    /\ (mv # NoMove /\ mv.result.error = "EACCES: rename") =>
          /\ mv.result.status = "failed"
          /\ ContentAt(fs, mv.source) = ContentAt(mv.pre, mv.source)
          /\ ContentAt(fs, mv.result.destination) = ContentAt(mv.pre, mv.result.destination)

\* a move to the other volume, undisturbed: completed, bytes intact, source gone
C13_Witness ==
    /\ mv # NoMove
    /\ CrossDevice(mv)
    /\ mv.fault = "none"
    /\ mv.result.status = "completed"
    /\ ~fileExists(fs, mv.source)
    /\ fs[mv.result.destination] = "A"

\* the k-th name tried for the backup of p: p.backup, then the counter names
BackupCandidate(p, k) == IF k = 0 THEN BackupName(p) ELSE Suffixed(BackupName(p), k)

\* C14: with backup and overwrite enabled and the destination occupied, the old content
\* of the destination is copied to a backup path that did not exist before
\* ("<destination>.backup", with a counter when taken) before the destination is
\* overwritten: the backup is there whatever happens to the later steps, and when the
\* backup copy fails nothing is overwritten and the move is reported failed.
C14_BackupBeforeOverwrite ==
    (/\ mv # NoMove
     /\ mv.options.backup /\ mv.options.overwrite
     /\ fileExists(mv.pre, mv.destination))
    =>
    IF mv.fault = "backup"
    THEN /\ mv.result.status = "failed"
         /\ fs = mv.pre
    ELSE \E k \in 0..Cardinality(DOMAIN mv.pre) :
            LET b == BackupCandidate(mv.destination, k)
            IN  /\ ~fileExists(mv.pre, b)
                /\ \A j \in 0..(k - 1) : fileExists(mv.pre, BackupCandidate(mv.destination, j))
                /\ ContentAt(fs, b) = mv.pre[mv.destination]
                /\ (DOMAIN fs) \ (DOMAIN mv.pre) = {b}
                /\ mv.result.destination = mv.destination

\* the destination was overwritten by the move, and its old content sits in a backup
\* that had to take a counter because an older backup was there
C14_Witness ==
    /\ mv # NoMove
    /\ mv.options.backup /\ mv.options.overwrite
    /\ fileExists(mv.pre, mv.destination)
    /\ fileExists(mv.pre, BackupName(mv.destination))
    /\ mv.result.status = "completed"
    /\ fs[mv.destination] = mv.pre[mv.source]
    /\ fs[BackupCandidate(mv.destination, 1)] = mv.pre[mv.destination]
    /\ fs[BackupName(mv.destination)] = "O"

-----------------------------------------------------------------------------
(* Claims about undo and about when the history is saved *)

Undoing == phase \in {"undoing", "undone"}

\* C15: undo replays the entry's moves in reverse order of recording (the k-th move
\* undone is the k-th from the end), skips a move whose destination no longer exists,
\* and its success and failure counts add up to the number of moves handled, in the
\* end to the number of moves of the entry.
C15_UndoReplaysInReverseOrder ==
    Undoing =>
        /\ \A k \in DOMAIN undo.order : undo.order[k] = Len(undo.entry.moves) + 1 - k
        /\ undo.successCount + undo.failCount = Len(undo.order)
        /\ phase = "undone" => Len(undo.order) = Len(undo.entry.moves)

C19_HistoryWriteFailureIsSwallowed ==
    (api.op = "saveHistoryEntry" /\ api.threw) => phase = "done"

-----------------------------------------------------------------------------
(* Claims about the history store *)

Writes == {"saveHistoryEntry", "deleteHistoryEntry"}

\* C17: persisting is transactional: when the write of a well-formed store fails or
\* is interrupted, a later read returns the old list or the new list, never a
\* truncated or unparsable store.
C17_FailedWriteKeepsTheStore ==
    (api.op \in Writes /\ api.threw /\ api.preKind = "array") =>
        /\ storeKind = "array"
        /\ readHistory(storeKind, history).list \in {api.pre, api.new}

\* C18: the history API never raises because of what the store holds: a store that
\* is missing, unparsable or not a list of entries reads as the empty list.
C18_BadStoreReadsAsEmpty ==
    /\ readHistory(storeKind, history).isArray
    /\ storeKind # "array" => readHistory(storeKind, history).list = <<>>
    /\ api.op # "none" => api.error # NotAnArray

\* the stored entries a call with this id addresses
Addressed(list, id) == SelectSeq(list, LAMBDA e : e.id = id)

\* C20: every entry gets an id distinct from the id of every other entry ever created,
\* ordered by creation, also for entries created in quick succession; so
\* getHistoryEntry(id) and deleteHistoryEntry(id) address exactly one stored entry.
C20_IdsAreUniqueAndOrdered ==
    /\ \A i, j \in DOMAIN created :
         i < j => (created[i].id # created[j].id /\ created[i].t < created[j].t)
    /\ api.op \in {"getHistoryEntry", "deleteHistoryEntry"} =>
         Len(Addressed(api.pre, api.id)) <= 1

-----------------------------------------------------------------------------
(* Claims about the analysis *)

TimesProposed(path) ==
    Len(SelectSeq(analysis.proposals, LAMBDA q : q.sourcePath = path))

TimesUncategorized(path) ==
    Len(SelectSeq(analysis.uncategorized, LAMBDA file : file.path = path))

ScannedPaths == {analysis.files[i].path : i \in 1..Len(analysis.files)}

\* C21: after the analysis, also over several chunks, every scanned file is in exactly
\* one of proposals and uncategorized, there is at most one proposal per sourcePath,
\* and no proposal names a file that is not in the scan.
C21_EveryFileInExactlyOneList ==
    (phase \in {"analyzing", "analyzed"} /\ analysis.next > Len(analysis.files)) =>
        /\ \A path \in ScannedPaths : TimesProposed(path) + TimesUncategorized(path) = 1
        /\ \A path \in ScannedPaths : TimesProposed(path) <= 1
        /\ \A i \in 1..Len(analysis.proposals) :
             analysis.proposals[i].sourcePath \in ScannedPaths

-----------------------------------------------------------------------------
(* Claims about what the watch command does with a batch *)

ExecutorReturned == phase \in {"done", "silentDone"}

Persisted(source) ==
    /\ storeKind = "array"
    /\ \E e \in DOMAIN history :
         \E k \in DOMAIN history[e].moves : history[e].moves[k].source = source

\* C22: every move that completes is recorded in a history entry that is then
\* persisted, whichever caller drove the executor (a one-shot organize run or a batch
\* of the watcher), so that it can be undone.
C22_CompletedMovesArePersisted ==
    ExecutorReturned => \A i \in CompletedSet : Persisted(results[i].source)

-----------------------------------------------------------------------------
(* Claims about start, idleness and the events handed to the analysis *)

\* a step of start(paths): of the handlers only start leaves the clock and the
\* notifications alone and is not a flushing handler
StartStep == last' = OtherHandler /\ accepted' = accepted /\ now' = now

\* C23: start(paths) on a running FileWatcher is a no-op: no second subscription, no
\* handlers registered again, and the pending map, the timer and the running flag are
\* unchanged, so that calling start twice is observed as calling it once.
C23_StartWhileRunningIsNoOp ==
    [][(isRunning /\ StartStep) =>
          UNCHANGED <<isRunning, watcher, debounceTimer, pendingFiles, timers, out>>]_vars

\* start was called on a running watcher after a batch had been flushed by the timer:
\* there is still one subscription
C23_Witness ==
    /\ isRunning
    /\ last = OtherHandler
    /\ pendingFiles = <<>>
    /\ Count("files") >= 1
    /\ Count("stop") = 0
    /\ Count("watch") = 1

\* C28: every path for which an add notification was received since the previous flush
\* is handed to the analysis as a new file when the next batch is emitted, also when a
\* change notification for the path arrived before the flush.
C28_AddedPathsReachTheAnalysis ==
    LET fb == FilesBatches
    IN  \A k \in 1..Len(fb) :
          \A n \in 1..Len(accepted) :
             (accepted[n].event.type = "add" /\ accepted[n].flushes = k - 1)
                => accepted[n].event.path \in newFilePaths(fb[k].events)

-----------------------------------------------------------------------------
(* Claims about duplicate detection and scanning *)

MaxSize(files) ==
    CHOOSE s \in {files[i].size : i \in 1..Len(files)} :
        \A i \in 1..Len(files) : files[i].size <= s

\* C24: for every duplicate group returned by detectDuplicates, wastedBytes is the sum
\* of the members' sizes minus the size of the largest member, whatever the scan order.
C24_WastedBytesKeepsTheLargest ==
    detected.returned =>
        \A k \in 1..Len(detected.groups) :
            detected.groups[k].wastedBytes =
                SumSizes(detected.groups[k].files) - MaxSize(detected.groups[k].files)

Returned(path) == \E i \in 1..Len(scanned.files) : scanned.files[i] = path

\* C25: scanDirectory fails with an error surfaced to its caller when the top-level
\* directory cannot be read, instead of returning an empty list; an unreadable
\* subdirectory of a recursive scan is only skipped, and the files of the top
\* directory and of the readable subdirectories are still returned.
C25_UnreadableTopLevelFails ==
    scanned.returned =>
        LET tree == scanned.tree
        IN  IF TopDir \in tree.unreadable THEN scanned.threw
            ELSE /\ ~scanned.threw
                 /\ \A name \in tree.top : Returned(Path(TopDir, name))
                 /\ tree.recursive =>
                      \A dir \in (DOMAIN tree.sub) \ tree.unreadable :
                          \A name \in tree.sub[dir] : Returned(Path(dir, name))

-----------------------------------------------------------------------------
(* Claims about undo and data loss *)

\* the step of undoCommand's loop that handles the entry's move number undo.i
UndoStep ==
    /\ phase = "undoing"
    /\ undo.i <= Len(undo.entry.moves)
    /\ undo'.i = undo.i + 1

\* C26: undoing a move never destroys data: if at undo time a file exists at the
\* move's original source path, undo does not overwrite it; the move is left in
\* place and counted as not restored.
C26_UndoNeverOverwrites ==
    [][(UndoStep /\ fileExists(fs, undo.entry.moves[undo.i].source)) =>
          (fs' = fs /\ undo'.failCount = undo.failCount + 1)]_vars

-----------------------------------------------------------------------------
(* Claims about concurrent handlers and concurrent processes *)

\* C29: when the handlers of two batches interleave at the awaits inside moveFile,
\* no moved file overwrites another: two files proposed for the same destination
\* end at distinct final paths, each with its own content.
C29_InterleavedMovesNeverOverwrite ==
    phase = "handlers" =>
        \A g, h \in DOMAIN procs :
            (/\ g # h
             /\ procs[g].destination = procs[h].destination
             /\ procs[g].status = "completed"
             /\ procs[h].status = "completed")
            => /\ procs[g].target # procs[h].target
               /\ ContentAt(fs, procs[g].target) = fs0[procs[g].source]
               /\ ContentAt(fs, procs[h].target) = fs0[procs[h].source]

Quiescent == \A p \in DOMAIN procs : procs[p].pc = "idle"

StoredIds == {history[i].id : i \in DOMAIN history}

\* C30: after any interleaving of saveHistoryEntry and deleteHistoryEntry issued by
\* two processes sharing the store, every entry that was saved and not deleted is
\* in the store, the entries are most recent first, and no deleted entry reappears.
C30_ConcurrentOperationsLoseNothing ==
    (phase = "processes" /\ Quiescent) =>
        /\ \A i \in DOMAIN created : created[i].id \notin DeletedIds => created[i].id \in StoredIds
        /\ StoredIds \cap DeletedIds = {}
        /\ \A i, j \in DOMAIN created :
             i < j => \A a, b \in DOMAIN history :
                         (history[a].id = created[j].id /\ history[b].id = created[i].id) => a < b

===============================================================================
